---- MODULE Spec2Model ----
(***************************************************************************)
(* A model of maidsafe/ffi-utils: the panic-containment wrapper            *)
(* (catch_unwind.rs), result encoding (result.rs, macros.rs), callback     *)
(* argument defaults (callback.rs), buffer ownership transfer (vec.rs),    *)
(* conversions from the C representation (string.rs, repr_c.rs) and the    *)
(* blocking test harness (test_utils.rs).                                  *)
(*                                                                         *)
(* Text is a sequence of byte values; a C string is text followed by a     *)
(* terminating 0.  A pointer is a record [region, addr]; the heap holds    *)
(* one cell per allocation and remembers how often it was released.        *)
(***************************************************************************)
EXTENDS Integers, Sequences, FiniteSets, TLC

VARIABLES
    pc,          \* position of the thread executing the library call
    op,          \* the top-level operation that was called
    sig,         \* signature of the callback: the types of its extra arguments
    fires,       \* number of callback firings started by the operation f itself
    site,        \* code site that is building / delivering the current FfiResult
    ret,         \* where control goes after the current site's FfiResult is dropped
    input,       \* the Result<_, E> the current site encodes
    res,         \* the site's local `res: FfiResult`
    calls,       \* log of callback invocations, in order
    heap,        \* CString allocations: [bytes, live, frees]
    staticFrees, \* how often static memory was handed to deallocation
    fOutcome,    \* how f ended inside catch_unwind_result
    mark,        \* history: Len(calls) when the current site was entered
    vbufs,       \* allocations of vectors and boxed slices: [elems, live, frees]
    vecs,        \* the vectors the native side owns: [id, ptr, len, cap]
    parts,       \* raw (ptr, len) pairs handed across the boundary, with history
    vstat,       \* counters: vectors made so far, clones made so far
    safe,        \* what as_safe_ptr returned, and the vector before and after
    conv,        \* a conversion across the boundary: its input and its output
    hpc,         \* position of the thread inside a test-harness call_N
    chan,        \* the harness's mpsc channel: messages sent, not yet received
    oper,        \* the operation under test: what it does and how far it is
    omem,        \* the operation's own array, lent to the callback
    hret         \* what the harness call returned

vars == <<pc, op, sig, fires, site, ret, input, res, calls, heap, staticFrees,
          fOutcome, mark, vbufs, vecs, parts, vstat, safe, conv, hpc, chan,
          oper, omem, hret>>

wrapVars == <<pc, op, sig, fires, site, ret, input, res, calls, heap,
              staticFrees, fOutcome, mark>>

vecVars == <<vbufs, vecs, parts, vstat>>

convVars == <<conv>>

harnessVars == <<hpc, chan, oper, omem, hret>>

-----------------------------------------------------------------------------
(* Bounds of the model.                                                    *)

\* longest text carried by TestError::FromStr
MaxLen == 2

\* most callback firings the operation f starts by itself in one call
MaxFires == 1

\* longest vector the native side builds
MaxVecLen == 2

\* most calls of vec_clone_from_raw_parts
MaxClones == 1

\* most calls of vec_into_raw_parts
MaxParts == 2

\* most firings of the harness callback by one operation under test
MaxOpFires == 2

-----------------------------------------------------------------------------
(* Text and C strings.                                                     *)

\* byte values drawn for texts: NUL and the letter a
Bytes == {0, 97}

RECURSIVE TextsOfLen(_)
TextsOfLen(n) ==
    IF n = 0 THEN {<<>>}
    ELSE {Append(t, b) : t \in TextsOfLen(n - 1), b \in Bytes}

Texts == UNION {TextsOfLen(n) : n \in 0..MaxLen}

HasNul(s) == \E i \in 1..Len(s) : s[i] = 0

\* CString::new(s): fails on an interior NUL, else the bytes plus a terminator
CStringNew(s) ==
    IF HasNul(s) THEN [ok |-> FALSE, bytes |-> <<>>]
    ELSE [ok |-> TRUE, bytes |-> Append(s, 0)]

\* CStr::from_ptr(p).to_str(): the bytes in front of the first 0
RECURSIVE CStrText(_)
CStrText(bytes) ==
    IF bytes = <<>> \/ Head(bytes) = 0 THEN <<>>
    ELSE <<Head(bytes)>> \o CStrText(Tail(bytes))

\* b"Could not convert error description into CString\x00"
FallbackBytes ==
    <<67, 111, 117, 108, 100, 32, 110, 111, 116, 32, 99, 111, 110, 118, 101,
      114, 116, 32, 101, 114, 114, 111, 114, 32, 100, 101, 115, 99, 114, 105,
      112, 116, 105, 111, 110, 32, 105, 110, 116, 111, 32, 67, 83, 116, 114,
      105, 110, 103, 0>>

\* "panic"
PanicText == <<112, 97, 110, 105, 99>>

\* "Test Error"
TestErrorText == <<84, 101, 115, 116, 32, 69, 114, 114, 111, 114>>

-----------------------------------------------------------------------------
(* Pointers.                                                               *)

NullPtr == [region |-> "null", addr |-> 0]

HeapPtr(i) == [region |-> "heap", addr |-> i]

\* address of the static fallback description
FallbackPtr == [region |-> "static", addr |-> 1]

\* address of the FFI_RESULT_OK constant
OkResultPtr == [region |-> "static", addr |-> 2]

\* address of a site's local `res`
StackPtr == [region |-> "stack", addr |-> 1]

\* some valid foreign object, for pointer-typed success values
ObjPtr == [region |-> "static", addr |-> 3]

is_null(p) == p.region = "null"

-----------------------------------------------------------------------------
(* The error type of the test-suite, TestError.                            *)

NoError == [variant |-> "none", s |-> <<>>]

TestErrors ==
    {[variant |-> "Test", s |-> <<>>]}
        \cup {[variant |-> "FromStr", s |-> t] : t \in Texts}

\* impl From<&str> for TestError
FromStr(s) == [variant |-> "FromStr", s |-> s]

\* error values of some other type implementing ErrorCode: the trait lets
\* error_code return any i32
ImplErrors ==
    {[variant |-> "Impl", s |-> <<97>>, code |-> c] : c \in {0, 1, -1, 7}}

\* ErrorCode::error_code: impl ErrorCode for TestError, and the code another
\* implementation chose
error_code(e) ==
    IF e.variant = "Test" THEN -1
    ELSE IF e.variant = "FromStr" THEN -2 ELSE e.code

\* impl Display for TestError
Display(e) == IF e.variant = "Test" THEN TestErrorText ELSE e.s

ResultOk == [ok |-> TRUE, err |-> NoError]

ResultErr(e) == [ok |-> FALSE, err |-> e]

Results == {ResultOk} \cup {ResultErr(e) : e \in TestErrors}

-----------------------------------------------------------------------------
(* Result and error encoding: result.rs and macros.rs.                     *)

None == [some |-> FALSE, s |-> <<>>]

Some(s) == [some |-> TRUE, s |-> s]

\* result.rs ffi_error_code: the debug! line has no effect on the value
ffi_error_code(err) == error_code(err)

\* result.rs ffi_error
ffi_error(err) ==
    [error_code |-> ffi_error_code(err), description |-> Display(err)]

\* result.rs ffi_result
ffi_result(r) ==
    IF r.ok THEN [error_code |-> 0, description |-> <<>>]
    ELSE ffi_error(r.err)

\* macros.rs ffi_error_code!
ffi_error_code_macro(err) == error_code(err)

\* variant: the description is formatted with {:?} instead of {}
ffi_error_macro_debug(err) ==
    [error_code |-> ffi_error_code_macro(err),
     description |-> <<70>> \o Display(err)]

\* macros.rs ffi_error!
ffi_error_macro(err) ==
    [error_code |-> ffi_error_code_macro(err), description |-> Display(err)]

\* macros.rs ffi_result!
ffi_result_macro(r) ==
    IF r.ok THEN [error_code |-> 0, description |-> <<>>]
    ELSE ffi_error_macro(r.err)

NativeResult(code, desc) == [error_code |-> code, description |-> desc]

FfiResult(code, ptr) == [error_code |-> code, description |-> ptr]

\* pub const FFI_RESULT_OK
FFI_RESULT_OK == FfiResult(0, NullPtr)

\* the site's `res` before it is built and after it is dropped
NoRes == FfiResult(0, NullPtr)

\* a fresh CString allocation holding `bytes`
Alloc(h, bytes) == Append(h, [bytes |-> bytes, live |-> TRUE, frees |-> 0])

\* NativeResult::into_repr_c: Some(text) becomes an owned CString handed out
\* with into_raw, None becomes the null pointer; an interior NUL is an error
into_repr_c(nr, h) ==
    IF ~nr.description.some
    THEN [ok |-> TRUE, res |-> FfiResult(nr.error_code, NullPtr), heap |-> h]
    ELSE LET c == CStringNew(nr.description.s)
         IN  IF c.ok
             THEN [ok |-> TRUE,
                   res |-> FfiResult(nr.error_code, HeapPtr(Len(h) + 1)),
                   heap |-> Alloc(h, c.bytes)]
             ELSE [ok |-> FALSE, res |-> NoRes, heap |-> h]

\* CString::from_raw(p) dropped at once: whatever is behind p is handed to
\* the allocator, be it a CString allocation or static memory
Release(mem, p) ==
    IF p.region = "heap"
    THEN [mem EXCEPT !.heap[p.addr] =
                         [@ EXCEPT !.live = FALSE, !.frees = @ + 1]]
    ELSE [mem EXCEPT !.staticFrees = @ + 1]

\* variant: drop without the null check
FfiResultDrop_unchecked(r, mem) == Release(mem, r.description)

\* impl Drop for FfiResult
FfiResultDrop(r, mem) ==
    IF ~is_null(r.description) THEN Release(mem, r.description) ELSE mem

\* What a callback reads through the result pointer while it runs
\* (NativeResult::clone_from_repr_c and string::from_c_str): `dangling` says
\* the description pointed at released memory.
ObserveDescription(p, h) ==
    IF is_null(p) THEN [some |-> FALSE, s |-> <<>>, dangling |-> FALSE]
    ELSE IF p.region = "static"
         THEN [some |-> TRUE, s |-> CStrText(FallbackBytes), dangling |-> FALSE]
         ELSE [some |-> TRUE, s |-> CStrText(h[p.addr].bytes),
               dangling |-> ~h[p.addr].live]

-----------------------------------------------------------------------------
(* Callback arguments: callback.rs.                                        *)

Scalar(name) == [kind |-> "scalar", name |-> name, elems |-> <<>>]

Tuple(elems) == [kind |-> "tuple", name |-> "", elems |-> elems]

Numerics == {"u32", "i32", "i64", "u64", "usize"}

\* the types with an `impl CallbackArgs`, tuples apart
ScalarNames == Numerics \cup {"unit", "bool", "const_ptr", "mut_ptr", "u8x32"}

\* a value the operation reports on success (tests/lib.rs reports 42)
RECURSIVE RealValue(_)
RealValue(t) ==
    IF t.kind = "tuple"
    THEN [i \in 1..Len(t.elems) |-> RealValue(t.elems[i])]
    ELSE CASE t.name \in Numerics -> 42
           [] t.name = "bool" -> TRUE
           [] t.name = "unit" -> <<>>
           [] t.name \in {"const_ptr", "mut_ptr"} -> ObjPtr
           [] t.name = "u8x32" -> [i \in 1..32 |-> 7]

\* variant: the tuple implementations default only their first component
RECURSIVE CallbackArgsDefault_first(_)
CallbackArgsDefault_first(t) ==
    IF t.kind = "tuple"
    THEN [i \in 1..Len(t.elems) |->
              IF i = 1 THEN CallbackArgsDefault_first(t.elems[i])
              ELSE RealValue(t.elems[i])]
    ELSE CASE t.name \in Numerics -> 0
           [] t.name = "bool" -> FALSE
           [] t.name = "unit" -> <<>>
           [] t.name \in {"const_ptr", "mut_ptr"} -> NullPtr
           [] t.name = "u8x32" -> [i \in 1..32 |-> 0]

\* CallbackArgs::default() of every implementing type
RECURSIVE CallbackArgsDefault(_)
CallbackArgsDefault(t) ==
    IF t.kind = "tuple"
    THEN [i \in 1..Len(t.elems) |-> CallbackArgsDefault(t.elems[i])]
    ELSE CASE t.name \in Numerics -> 0
           [] t.name = "bool" -> FALSE
           [] t.name = "unit" -> <<>>
           [] t.name \in {"const_ptr", "mut_ptr"} -> NullPtr
           [] t.name = "u8x32" -> [i \in 1..32 |-> 0]

\* Callback::Args of a callback whose extra parameters have the types `s`
ArgsType(s) ==
    CASE Len(s) = 0 -> Scalar("unit")
      [] Len(s) = 1 -> s[1]
      [] OTHER -> Tuple(s)

\* Callback::call: the extra parameters the function pointer receives
CallbackCall(s, args) ==
    CASE Len(s) = 0 -> <<>>
      [] Len(s) = 1 -> <<args>>
      [] OTHER -> [i \in 1..Len(s) |-> args[i]]

\* the callback signatures explored: every arity with an `impl Callback`, and
\* among them every type with an `impl CallbackArgs`
CallbackSigs ==
    {<<>>,
     <<Scalar("i32")>>,
     <<Scalar("bool"), Scalar("u64")>>,
     <<Scalar("const_ptr"), Scalar("usize"), Scalar("u8x32")>>,
     <<Tuple(<<Scalar("u32"), Scalar("i64"), Scalar("mut_ptr"),
               Scalar("unit")>>)>>,
     <<Tuple(<<Scalar("i32"), Scalar("bool")>>),
       Tuple(<<Scalar("u64"), Scalar("mut_ptr"), Scalar("u8x32")>>)>>}

-----------------------------------------------------------------------------
(* The state after construction: no call has been made.                    *)

\* as_safe_ptr was not called yet
NoSafe == [called |-> FALSE]

\* no conversion was asked for yet
NoConv == [fn |-> "none"]

\* no channel was created yet
NoChan == [msgs |-> <<>>, senders |-> 0]

\* no operation was handed to the harness yet
NoOper == [kind |-> "none"]

\* the operation holds no array
NoMem == [elems |-> <<>>, live |-> FALSE]

\* the harness call has not returned
NoRet == [tag |-> "none"]

Init ==
    /\ pc = "idle"
    /\ op = "none"
    /\ sig = <<>>
    /\ fires = 0
    /\ site = "none"
    /\ ret = "none"
    /\ input = ResultOk
    /\ res = NoRes
    /\ calls = <<>>
    /\ heap = <<>>
    /\ staticFrees = 0
    /\ fOutcome = "none"
    /\ mark = 0
    /\ vbufs = <<>>
    /\ vecs = {}
    /\ parts = <<>>
    /\ vstat = [made |-> 0, clones |-> 0]
    /\ safe = NoSafe
    /\ conv = NoConv
    /\ hpc = "idle"
    /\ chan = NoChan
    /\ oper = NoOper
    /\ omem = NoMem
    /\ hret = NoRet

-----------------------------------------------------------------------------
(* catch_unwind.rs                                                         *)

\* variant: the panic text is lost
catch_unwind_result_blank(run) ==
    IF run.panicked THEN ResultErr(FromStr(<<>>)) ELSE run.result

\* variant: the panic is caught and taken for success
catch_unwind_result_swallow(run) ==
    IF run.panicked THEN ResultOk ELSE run.result

\* catch_unwind_result: a panic of f becomes Err(E::from("panic")), anything
\* else is f's own result
catch_unwind_result(run) ==
    IF run.panicked THEN ResultErr(FromStr(PanicText)) ELSE run.result

\* catch_unwind_cb is entered with a callback of signature s; f starts running
CatchUnwindCb(s) ==
    /\ pc = "idle"
    /\ pc' = "f"
    /\ op' = "catch_unwind_cb"
    /\ sig' = s
    /\ UNCHANGED <<fires, site, ret, input, res, calls, heap, staticFrees,
                   fOutcome, mark>>
    /\ UNCHANGED <<vecVars, safe, convVars, harnessVars>>

\* variant: the callback is invoked whatever f's result is
CatchUnwindCbBody_always(run, how) ==
    LET r == catch_unwind_result(run)
    IN  /\ fOutcome' = how
        /\ pc' = "encode"
        /\ site' = "catch_unwind_cb"
        /\ ret' = "done"
        /\ input' = r
        /\ mark' = Len(calls)
        /\ UNCHANGED <<op, sig, fires, res, calls, heap, staticFrees>>
        /\ UNCHANGED <<vecVars, safe, convVars, harnessVars>>

\* `if let Err(err) = catch_unwind_result(f)`: on Err the error path of the
\* wrapper starts, on Ok the wrapper returns
CatchUnwindCbBody(run, how) ==
    LET r == catch_unwind_result(run)
    IN  /\ fOutcome' = how
        /\ IF r.ok
           THEN /\ pc' = "done"
                /\ UNCHANGED <<site, ret, input, mark>>
           ELSE /\ pc' = "encode"
                /\ site' = "catch_unwind_cb"
                /\ ret' = "done"
                /\ input' = r
                /\ mark' = Len(calls)
        /\ UNCHANGED <<op, sig, fires, res, calls, heap, staticFrees>>
        /\ UNCHANGED <<vecVars, safe, convVars, harnessVars>>

\* the callback invocation record of one firing
Invocation(by, inF, resPtr, r, h, extras) ==
    [by |-> by, in_f |-> inF, result_ptr |-> resPtr,
     error_code |-> r.error_code, description |-> r.description,
     seen |-> ObserveDescription(r.description, h), extras |-> extras]

\* f reports success itself: o_callback(user_data, FFI_RESULT_OK, output)
FFiresOk ==
    /\ pc = "f"
    /\ fires < MaxFires
    /\ fires' = fires + 1
    /\ calls' = Append(calls,
                       Invocation("f", TRUE, OkResultPtr, FFI_RESULT_OK, heap,
                                  CallbackCall(sig, RealValue(ArgsType(sig)))))
    /\ UNCHANGED <<pc, op, sig, site, ret, input, res, heap, staticFrees,
                   fOutcome, mark>>
    /\ UNCHANGED <<vecVars, safe, convVars, harnessVars>>

\* f reports a result through call_result_cb (function, or macro as in
\* tests/lib.rs foreign_function2) and goes on afterwards
FCallsResultCb(variant, r) ==
    /\ pc = "f"
    /\ fires < MaxFires
    /\ fires' = fires + 1
    /\ pc' = "encode"
    /\ site' = variant
    /\ ret' = "f"
    /\ input' = r
    /\ mark' = Len(calls)
    /\ UNCHANGED <<op, sig, res, calls, heap, staticFrees, fOutcome>>
    /\ UNCHANGED <<vecVars, safe, convVars, harnessVars>>

\* f returns r
FReturns(r) ==
    /\ pc = "f"
    /\ CatchUnwindCbBody([panicked |-> FALSE, result |-> r],
                         IF r.ok THEN "ok" ELSE "err")

\* f panics
FPanics ==
    /\ pc = "f"
    /\ CatchUnwindCbBody([panicked |-> TRUE, result |-> ResultOk], "panic")

\* catch_unwind_cb, lines 37-53 of catch_unwind.rs: the FfiResult the error path hands to cb.
\* A description that cannot become a CString is replaced by the static text,
\* the error code is kept.
catch_unwind_cb_res(r, h) ==
    LET enc == ffi_result_macro(r)
        c == into_repr_c(NativeResult(enc.error_code, Some(enc.description)), h)
    IN  IF c.ok THEN [res |-> c.res, heap |-> c.heap]
        ELSE [res |-> FfiResult(enc.error_code, FallbackPtr), heap |-> h]

\* the error path of catch_unwind_cb builds its `res`
CatchUnwindCbEncode ==
    /\ pc = "encode"
    /\ site = "catch_unwind_cb"
    /\ LET b == catch_unwind_cb_res(input, heap)
       IN  /\ res' = b.res
           /\ heap' = b.heap
    /\ pc' = "call"
    /\ UNCHANGED <<op, sig, fires, site, ret, input, calls, staticFrees,
                   fOutcome, mark>>
    /\ UNCHANGED <<vecVars, safe, convVars, harnessVars>>

-----------------------------------------------------------------------------
(* call_result_cb: the macro of macros.rs and the function of result.rs.   *)

\* variant: the fallback arm reports a fixed code instead of error_code
call_result_cb_macro_res_fixed(r, h) ==
    LET enc == ffi_result_macro(r)
        c == into_repr_c(NativeResult(enc.error_code, Some(enc.description)), h)
    IN  IF c.ok THEN [res |-> c.res, heap |-> c.heap]
        ELSE [res |-> FfiResult(-1, FallbackPtr), heap |-> h]

\* call_result_cb!, lines 75-90 of macros.rs: as in catch_unwind_cb
call_result_cb_macro_res(r, h) ==
    LET enc == ffi_result_macro(r)
        c == into_repr_c(NativeResult(enc.error_code, Some(enc.description)), h)
    IN  IF c.ok THEN [res |-> c.res, heap |-> c.heap]
        ELSE [res |-> FfiResult(enc.error_code, FallbackPtr), heap |-> h]

\* result::call_result_cb, lines 98-103 of result.rs: unwrap! panics when into_repr_c fails
call_result_cb_res(r, h) ==
    LET enc == ffi_result(r)
        c == into_repr_c(NativeResult(enc.error_code, Some(enc.description)), h)
    IN  [panicked |-> ~c.ok, res |-> c.res, heap |-> c.heap]

\* call_result_cb (variant "call_result_cb") or call_result_cb! (variant
\* "call_result_cb_macro") is called directly with the result r
CallResultCb(variant, s, r) ==
    /\ pc = "idle"
    /\ pc' = "encode"
    /\ op' = variant
    /\ sig' = s
    /\ site' = variant
    /\ ret' = "done"
    /\ input' = r
    /\ mark' = Len(calls)
    /\ UNCHANGED <<fires, res, calls, heap, staticFrees, fOutcome>>
    /\ UNCHANGED <<vecVars, safe, convVars, harnessVars>>

\* the macro builds its `res`
CallResultCbMacroEncode ==
    /\ pc = "encode"
    /\ site = "call_result_cb_macro"
    /\ LET b == call_result_cb_macro_res(input, heap)
       IN  /\ res' = b.res
           /\ heap' = b.heap
    /\ pc' = "call"
    /\ UNCHANGED <<op, sig, fires, site, ret, input, calls, staticFrees,
                   fOutcome, mark>>
    /\ UNCHANGED <<vecVars, safe, convVars, harnessVars>>

\* the function builds its `res`; the panic of unwrap! unwinds into
\* catch_unwind_result when f made the call, and into the caller otherwise
CallResultCbEncode ==
    /\ pc = "encode"
    /\ site = "call_result_cb"
    /\ LET b == call_result_cb_res(input, heap)
       IN  IF ~b.panicked
           THEN /\ res' = b.res
                /\ heap' = b.heap
                /\ pc' = "call"
                /\ UNCHANGED <<op, sig, fires, site, ret, input, calls,
                               staticFrees, fOutcome, mark>>
                /\ UNCHANGED <<vecVars, safe, convVars, harnessVars>>
           ELSE IF ret = "f"
                THEN CatchUnwindCbBody([panicked |-> TRUE, result |-> ResultOk],
                                       "panic")
                ELSE /\ pc' = "unwound"
                     /\ UNCHANGED <<op, sig, fires, site, ret, input, res,
                                    calls, heap, staticFrees, fOutcome, mark>>
                     /\ UNCHANGED <<vecVars, safe, convVars, harnessVars>>

\* the NativeResult values explored
NativeResults ==
    {NativeResult(c, d) : c \in {0, -1},
                          d \in {None} \cup {Some(s) : s \in Texts}}

\* A user of the library converts a NativeResult of its own with into_repr_c;
\* on Ok it hands the FfiResult to its callback and lets it go out of scope,
\* on Err there is no FfiResult.
IntoReprC(s, nr) ==
    /\ pc = "idle"
    /\ op' = "into_repr_c"
    /\ sig' = s
    /\ site' = "into_repr_c"
    /\ ret' = "done"
    /\ mark' = Len(calls)
    /\ LET c == into_repr_c(nr, heap)
       IN  /\ res' = c.res
           /\ heap' = c.heap
           /\ pc' = IF c.ok THEN "call" ELSE "done"
    /\ UNCHANGED <<fires, input, calls, staticFrees, fOutcome>>
    /\ UNCHANGED <<vecVars, safe, convVars, harnessVars>>

-----------------------------------------------------------------------------
(* Delivery and destruction of the site's FfiResult.                       *)

\* variant: the callback is invoked a second time after the first returned
CbCall_twice ==
    /\ pc = "call"
    /\ LET c == Invocation(site, ret = "f", StackPtr, res, heap,
                           CallbackCall(sig, CallbackArgsDefault(ArgsType(sig))))
       IN  calls' = calls \o <<c, c>>
    /\ pc' = "drop"
    /\ UNCHANGED <<op, sig, fires, site, ret, input, res, heap, staticFrees,
                   fOutcome, mark>>
    /\ UNCHANGED <<vecVars, safe, convVars, harnessVars>>

\* variant: the description is released before the callback is invoked
CbCall_released ==
    /\ pc = "call"
    /\ LET mem == FfiResultDrop(res, [heap |-> heap,
                                      staticFrees |-> staticFrees])
       IN  /\ heap' = mem.heap
           /\ staticFrees' = mem.staticFrees
           /\ calls' = Append(calls,
                              Invocation(site, ret = "f", StackPtr, res,
                                         mem.heap,
                                         CallbackCall(sig,
                                             CallbackArgsDefault(
                                                 ArgsType(sig)))))
    /\ pc' = "drop"
    /\ UNCHANGED <<op, sig, fires, site, ret, input, res, fOutcome, mark>>
    /\ UNCHANGED <<vecVars, safe, convVars, harnessVars>>

\* cb.call(user_data.into(), &res, CallbackArgs::default())
CbCall ==
    /\ pc = "call"
    /\ calls' = Append(calls,
                       Invocation(site, ret = "f", StackPtr, res, heap,
                                  CallbackCall(sig,
                                      CallbackArgsDefault(ArgsType(sig)))))
    /\ pc' = "drop"
    /\ UNCHANGED <<op, sig, fires, site, ret, input, res, heap, staticFrees,
                   fOutcome, mark>>
    /\ UNCHANGED <<vecVars, safe, convVars, harnessVars>>

\* `res` goes out of scope.  Releasing memory that never came from the
\* allocator is undefined: the process may be aborted by the allocator, or go
\* on.
ResDrop ==
    /\ pc = "drop"
    /\ LET mem == FfiResultDrop(res, [heap |-> heap, staticFrees |-> staticFrees])
       IN  /\ heap' = mem.heap
           /\ staticFrees' = mem.staticFrees
    /\ res' = NoRes
    /\ \/ pc' = ret
       \/ /\ res.description.region = "static"
          /\ pc' = "aborted"
    /\ UNCHANGED <<op, sig, fires, site, ret, input, calls, fOutcome, mark>>
    /\ UNCHANGED <<vecVars, safe, convVars, harnessVars>>

WrapNext ==
    \/ \E s \in CallbackSigs : CatchUnwindCb(s)
    \/ \E s \in CallbackSigs, r \in Results,
          v \in {"call_result_cb", "call_result_cb_macro"} : CallResultCb(v, s, r)
    \/ \E s \in CallbackSigs, nr \in NativeResults : IntoReprC(s, nr)
    \/ FFiresOk
    \/ \E r \in Results, v \in {"call_result_cb", "call_result_cb_macro"} :
          FCallsResultCb(v, r)
    \/ \E r \in Results : FReturns(r)
    \/ FPanics
    \/ CatchUnwindCbEncode
    \/ CallResultCbMacroEncode
    \/ CallResultCbEncode
    \/ CbCall
    \/ ResDrop

Next == WrapNext

Spec == Init /\ [][Next]_vars

-----------------------------------------------------------------------------
(* Properties of the panic-containment wrapper and of result encoding.     *)

CUC == "catch_unwind_cb"

MACRO == "call_result_cb_macro"

\* the call has ended: it returned, or the process was aborted
Ended == pc \in {"done", "aborted"}

\* indices of the invocations made by the code site s
CallsBy(s) == {i \in 1..Len(calls) : calls[i].by = s}

\* indices of the invocations made while f was running
CallsInF == {i \in 1..Len(calls) : calls[i].in_f}

FallbackText == CStrText(FallbackBytes)

\* C1 (as stated): whatever f does, a call of catch_unwind_cb ends with exactly
\* one invocation of cb, counting those of f and of the wrapper.
C1_ExactlyOneWhateverF ==
    (op = CUC /\ Ended) => Len(calls) = 1

\* C1 (amended): the wrapper itself invokes cb exactly once when f returned Err
\* or panicked and not at all when f returned Ok, on top of whatever f fired;
\* so the total is exactly one when f fired once and returned Ok, or fired
\* nothing and failed.
C1_WrapperFiresOnceIffFFailed ==
    (op = CUC /\ Ended /\ fOutcome # "none") =>
        /\ Cardinality(CallsBy(CUC) \ CallsInF)
               = (IF fOutcome = "ok" THEN 0 ELSE 1)
        /\ Len(calls) = Cardinality(CallsInF)
                            + (IF fOutcome = "ok" THEN 0 ELSE 1)
        /\ (\/ fOutcome = "ok" /\ Cardinality(CallsInF) = 1
            \/ fOutcome # "ok" /\ Cardinality(CallsInF) = 0)
               => Len(calls) = 1

C1_Witness ==
    /\ op = CUC
    /\ pc = "done"
    /\ fOutcome = "err"
    /\ CallsInF = {}
    /\ Len(calls) = 1

\* C2: when f panics before any callback was fired, catch_unwind_cb invokes cb
\* exactly once, with a nonzero error_code and a non-null description, and
\* returns to its caller: the panic does not leave the wrapper.
C2_PanicContained ==
    (op = CUC /\ fOutcome = "panic" /\ CallsInF = {}) =>
        /\ pc \in {"encode", "call", "drop", "done"}
        /\ pc \in {"encode", "call"} => Len(calls) = 0
        /\ pc \in {"drop", "done"} =>
              /\ Len(calls) = 1
              /\ calls[1].by = CUC
              /\ calls[1].error_code # 0
              /\ ~is_null(calls[1].description)
              /\ calls[1].seen.some /\ ~calls[1].seen.dangling

C2_Witness ==
    /\ op = CUC
    /\ fOutcome = "panic"
    /\ CallsInF = {}
    /\ pc = "done"
    /\ Len(calls) = 1
    /\ calls[1].error_code = -2

\* the description the error path must show for the error e
ExpectedDescription(e) ==
    IF HasNul(Display(e)) THEN FallbackText ELSE Display(e)

\* C3: when f returns Err(e) without having fired a callback, the wrapper
\* invokes cb exactly once, with error_code = e.error_code() and a description
\* that reads as e's Display text, or as the fallback text when the Display
\* text holds a NUL byte.
C3_ErrDelivered ==
    (op = CUC /\ fOutcome = "err" /\ CallsInF = {}) =>
        /\ pc \in {"encode", "call"} => Len(calls) = 0
        /\ pc \in {"drop", "done", "aborted"} =>
              /\ Len(calls) = 1
              /\ calls[1].by = CUC
              /\ calls[1].error_code = error_code(input.err)
              /\ calls[1].seen.some
              /\ ~calls[1].seen.dangling
              /\ calls[1].seen.s = ExpectedDescription(input.err)

C3_Witness ==
    /\ op = CUC
    /\ fOutcome = "err"
    /\ CallsInF = {}
    /\ pc = "done"
    /\ Len(calls) = 1
    /\ input.err.variant = "FromStr"
    /\ Len(input.err.s) = 2
    /\ ~HasNul(input.err.s)
    /\ calls[1].seen.s = input.err.s

\* the state part of C4: when f returned Ok(()), the wrapper invoked cb zero
\* times; so when f fired the success callback once, exactly one invocation
\* is observed, with error_code 0, whatever the callback's arity
C4_OkState ==
    (op = CUC /\ fOutcome = "ok") =>
        /\ pc = "done"
        /\ CallsBy(CUC) \ CallsInF = {}
        /\ (Cardinality(CallsInF) = 1 /\ calls[1].by = "f") =>
              /\ Len(calls) = 1
              /\ calls[1].error_code = 0
              /\ Len(calls[1].extras) = Len(sig)

\* the step part of C4: f returning Ok(()) changes nothing but the position
C4_OkStep ==
    (pc = "f" /\ fOutcome' = "ok") =>
        /\ pc' = "done"
        /\ UNCHANGED <<calls, heap, staticFrees, res, sig, op>>

\* C4: always, once f has returned Ok(()) the wrapper has made no invocation
\* of its own (C4_OkState), and the step on which f returns Ok(()) ends the
\* call and leaves invocations, memory and `res` as they were (C4_OkStep).
C4_OkDoesNothing == [](C4_OkState) /\ [][C4_OkStep]_vars

C4_Witness ==
    /\ op = CUC
    /\ fOutcome = "ok"
    /\ pc = "done"
    /\ Len(sig) = 3
    /\ Len(calls) = 1
    /\ calls[1].by = "f"
    /\ calls[1].error_code = 0

\* the invocation that delivers the fallback for the error e
IsFallbackOf(c, e) ==
    /\ c.by = site
    /\ c.error_code = error_code(e)
    /\ c.description = FallbackPtr
    /\ c.seen.s = FallbackText

\* C5: in catch_unwind_cb and in call_result_cb!, when the description cannot
\* become a C string (a NUL byte in it), the site still invokes the callback
\* exactly once, with the unchanged error code and the fallback description:
\* no second invocation, no skipped invocation.
C5_FallbackOnce ==
    (site \in {CUC, MACRO} /\ ~input.ok /\ HasNul(Display(input.err))) =>
        /\ pc \in {"encode", "call"} => Len(calls) = mark
        /\ (pc = "drop" \/ (Ended /\ ret = "done")) =>
              /\ Len(calls) = mark + 1
              /\ IsFallbackOf(calls[mark + 1], input.err)

C5_Witness ==
    /\ op = CUC
    /\ pc = "done"
    /\ Len(calls) = 2
    /\ calls[1].by = MACRO
    /\ calls[1].description = FallbackPtr
    /\ calls[2].by = CUC
    /\ calls[2].description = FallbackPtr
    /\ calls[2].error_code = -2

\* C6 (as stated): every FfiResult the library hands to a callback has
\* error_code = 0 exactly when its description is the null pointer.
C6_CodeZeroIffNoDescription ==
    \A i \in 1..Len(calls) :
        calls[i].by \in {"f", CUC, MACRO, "call_result_cb"} =>
            ((calls[i].error_code = 0) <=> is_null(calls[i].description))

\* the safe default of a value of type t, spelled out
RECURSIVE IsSafeDefault(_, _)
IsSafeDefault(t, v) ==
    IF t.kind = "tuple"
    THEN /\ Len(t.elems) \in 2..4
         /\ Len(v) = Len(t.elems)
         /\ \A i \in 1..Len(v) : IsSafeDefault(t.elems[i], v[i])
    ELSE CASE t.name \in {"u32", "i32", "i64", "u64", "usize"} -> v = 0
           [] t.name \in {"const_ptr", "mut_ptr"} -> v.region = "null"
           [] t.name = "u8x32" -> Len(v) = 32 /\ \A i \in 1..32 : v[i] = 0
           [] t.name = "bool" -> v = FALSE
           [] t.name = "unit" -> v = <<>>

\* C7: every invocation made by an error path (catch_unwind_cb, call_result_cb
\* as function and as macro) passes a non-null result pointer and, for every
\* extra parameter, the safe default of its type.
C7_ErrorPathDefaults ==
    \A i \in 1..Len(calls) :
        calls[i].by \in {CUC, MACRO, "call_result_cb"} =>
            /\ ~is_null(calls[i].result_ptr)
            /\ Len(calls[i].extras) = Len(sig)
            /\ \A k \in 1..Len(sig) : IsSafeDefault(sig[k], calls[i].extras[k])

C7_Witness ==
    /\ pc = "done"
    /\ Len(sig) = 2
    /\ sig[1].kind = "tuple"
    /\ Len(calls) = 1
    /\ calls[1].by = CUC
    /\ calls[1].error_code # 0
    /\ calls[1].extras[2][3] = [i \in 1..32 |-> 0]

\* C8: dropping an FfiResult releases the description it owns exactly once
\* when the description is non-null and releases nothing when it is null; no
\* description allocation is ever released twice.
C8_DescriptionReleasedOnce ==
    /\ \A a \in 1..Len(heap) :
          /\ heap[a].frees <= 1
          /\ heap[a].live <=> (heap[a].frees = 0)
    /\ pc \in {"call", "drop"} =>
          \A a \in 1..Len(heap) :
              heap[a].live <=> (res.description = HeapPtr(a))
    /\ pc \notin {"call", "drop"} =>
          \A a \in 1..Len(heap) : heap[a].frees = 1
    /\ (site = "into_repr_c" /\ pc = "done" /\ Len(calls) = 1
            /\ is_null(calls[1].description)) =>
          (heap = <<>> /\ staticFrees = 0)

C8_Witness ==
    /\ pc = "done"
    /\ Len(heap) = 2
    /\ \A a \in 1..Len(heap) : heap[a].frees = 1 /\ ~heap[a].live

C8_WitnessNull ==
    /\ site = "into_repr_c"
    /\ pc = "done"
    /\ Len(calls) = 1
    /\ is_null(calls[1].description)

-----------------------------------------------------------------------------
(* Buffer ownership transfer: vec.rs.                                      *)
(*                                                                         *)
(* A Vec is [ptr, len, cap]; its elements are the first len elements of    *)
(* the allocation behind ptr.  A Vec or boxed slice of capacity 0 owns no  *)
(* allocation and carries the dangling pointer NonNull::dangling().        *)

\* element values drawn for vectors
Elems == {7, 8}

RECURSIVE SeqsOfLen(_)
SeqsOfLen(n) ==
    IF n = 0 THEN {<<>>}
    ELSE {Append(s, e) : s \in SeqsOfLen(n - 1), e \in Elems}

ElemSeqs == UNION {SeqsOfLen(n) : n \in 0..MaxVecLen}

\* NonNull::dangling(): non-null, well aligned, backed by nothing
DanglingPtr == [region |-> "dangling", addr |-> 1]

BufPtr(a) == [region |-> "buf", addr |-> a]

\* the elements a slice (ptr, len) reads; reading released memory is marked
SliceRead(bufs, ptr, len) ==
    IF len = 0 THEN [valid |-> TRUE, elems |-> <<>>]
    ELSE IF ptr.region = "buf" /\ ptr.addr \in 1..Len(bufs)
              /\ bufs[ptr.addr].live /\ len <= Len(bufs[ptr.addr].elems)
         THEN [valid |-> TRUE, elems |-> SubSeq(bufs[ptr.addr].elems, 1, len)]
         ELSE [valid |-> FALSE, elems |-> <<>>]

\* the allocator releases the allocation behind ptr
BufFree(bufs, ptr) ==
    [bufs EXCEPT ![ptr.addr] = [@ EXCEPT !.live = FALSE, !.frees = @ + 1]]

\* a Vec numbered id holding `elems` with `extra` spare capacity
\* (vec![..], Vec::with_capacity, to_vec)
VecMake(bufs, id, elems, extra) ==
    IF Len(elems) + extra = 0
    THEN [vec |-> [id |-> id, ptr |-> DanglingPtr, len |-> 0, cap |-> 0],
          bufs |-> bufs]
    ELSE [vec |-> [id |-> id, ptr |-> BufPtr(Len(bufs) + 1),
                   len |-> Len(elems), cap |-> Len(elems) + extra],
          bufs |-> Append(bufs, [elems |-> elems, live |-> TRUE, frees |-> 0])]

\* impl Drop for Vec: the allocation, if there is one, is released
VecDropped(bufs, v) == IF v.cap = 0 THEN bufs ELSE BufFree(bufs, v.ptr)

\* Vec::into_boxed_slice: shrink_to_fit, then the same pointer as a Box<[T]>;
\* shrinking to length 0 releases the allocation and leaves the dangling pointer
into_boxed_slice(bufs, v) ==
    IF v.len = 0 /\ v.cap > 0
    THEN [box |-> [ptr |-> DanglingPtr, len |-> 0], bufs |-> BufFree(bufs, v.ptr)]
    ELSE [box |-> [ptr |-> v.ptr, len |-> v.len], bufs |-> bufs]

\* variant: the boxed slice is dropped on return instead of forgotten
vec_into_raw_parts_dropped(bufs, v) ==
    LET b == into_boxed_slice(bufs, v)
    IN  [ptr |-> b.box.ptr, len |-> b.box.len,
         bufs |-> IF b.box.len = 0 THEN b.bufs ELSE BufFree(b.bufs, b.box.ptr)]

\* vec_into_raw_parts: (b.as_mut_ptr(), b.len()), and mem::forget(b) keeps
\* the allocation
vec_into_raw_parts(bufs, v) ==
    LET b == into_boxed_slice(bufs, v)
    IN  [ptr |-> b.box.ptr, len |-> b.box.len, bufs |-> b.bufs]

\* variant: the vector is rebuilt without its last element
vec_from_raw_parts_short(id, ptr, len) ==
    [id |-> id, ptr |-> ptr, len |-> IF len = 0 THEN 0 ELSE len - 1, cap |-> len]

\* vec_from_raw_parts: Box::from_raw(slice::from_raw_parts_mut(ptr, len))
\* .into_vec() owns the allocation again, with cap = len
vec_from_raw_parts(id, ptr, len) ==
    [id |-> id, ptr |-> ptr, len |-> len, cap |-> len]

\* variant: the "copy" is a second owner of the source allocation
vec_clone_from_raw_parts_alias(bufs, id, ptr, len) ==
    [vec |-> [id |-> id, ptr |-> ptr, len |-> len, cap |-> len], bufs |-> bufs]

\* vec_clone_from_raw_parts: slice::from_raw_parts(ptr, len).to_vec()
vec_clone_from_raw_parts(bufs, id, ptr, len) ==
    VecMake(bufs, id, SliceRead(bufs, ptr, len).elems, 0)

\* variant: the raw data pointer, whatever the length
as_safe_ptr_raw(v) == v.ptr

\* impl SafePtr for Vec<T>: null for an empty vector, as_ptr() otherwise
as_safe_ptr(v) == IF v.len = 0 THEN NullPtr ELSE v.ptr

\* nothing was observed yet
NoRead == [valid |-> TRUE, elems |-> <<>>]

\* the state in which the native side holds one vector, any of those explored
InitVec ==
    /\ pc = "idle"
    /\ op = "none"
    /\ sig = <<>>
    /\ fires = 0
    /\ site = "none"
    /\ ret = "none"
    /\ input = ResultOk
    /\ res = NoRes
    /\ calls = <<>>
    /\ heap = <<>>
    /\ staticFrees = 0
    /\ fOutcome = "none"
    /\ mark = 0
    /\ parts = <<>>
    /\ vstat = [made |-> 1, clones |-> 0]
    /\ safe = NoSafe
    /\ conv = NoConv
    /\ hpc = "idle"
    /\ chan = NoChan
    /\ oper = NoOper
    /\ omem = NoMem
    /\ hret = NoRet
    /\ \E elems \in ElemSeqs, extra \in {0, 1} :
          LET m == VecMake(<<>>, 1, elems, extra)
          IN  /\ vecs = {m.vec}
              /\ vbufs = m.bufs

\* the native side hands the vector v to the foreign side
VecIntoRawParts(v) ==
    /\ Len(parts) < MaxParts
    /\ LET r == vec_into_raw_parts(vbufs, v)
       IN  /\ parts' = Append(parts,
                              [ptr |-> r.ptr, len |-> r.len,
                               orig |-> SliceRead(vbufs, v.ptr, v.len).elems,
                               rebuilt |-> FALSE, out |-> NoRead,
                               clones |-> 0, cloned |-> NoRead])
           /\ vbufs' = r.bufs
    /\ vecs' = vecs \ {v}
    /\ UNCHANGED vstat
    /\ UNCHANGED <<wrapVars, safe, convVars, harnessVars>>

\* the pair parts[j], not yet reconstructed, is read with
\* vec_clone_from_raw_parts; the copy is a vector of the native side
VecCloneFromRawParts(j) ==
    /\ vstat.clones < MaxClones
    /\ ~parts[j].rebuilt
    /\ LET m == vec_clone_from_raw_parts(vbufs, vstat.made + 1, parts[j].ptr,
                                         parts[j].len)
           src == SliceRead(vbufs, parts[j].ptr, parts[j].len)
       IN  /\ vecs' = vecs \cup {m.vec}
           /\ vbufs' = m.bufs
           /\ parts' = [parts EXCEPT
                  ![j].clones = @ + 1,
                  ![j].cloned =
                      [valid |-> src.valid /\ parts[j].cloned.valid,
                       elems |-> SliceRead(m.bufs, m.vec.ptr, m.vec.len).elems]]
    /\ vstat' = [made |-> vstat.made + 1, clones |-> vstat.clones + 1]
    /\ UNCHANGED <<wrapVars, safe, convVars, harnessVars>>

\* the pair parts[j] comes back through vec_from_raw_parts; the unsafe
\* contract allows this once per pair
VecFromRawParts(j) ==
    /\ ~parts[j].rebuilt
    /\ LET v == vec_from_raw_parts(vstat.made + 1, parts[j].ptr, parts[j].len)
       IN  /\ vecs' = vecs \cup {v}
           /\ parts' = [parts EXCEPT ![j].rebuilt = TRUE,
                                     ![j].out = SliceRead(vbufs, v.ptr, v.len)]
    /\ vstat' = [vstat EXCEPT !.made = @ + 1]
    /\ UNCHANGED vbufs
    /\ UNCHANGED <<wrapVars, safe, convVars, harnessVars>>

\* a vector the native side owns goes out of scope
VecDrop(v) ==
    /\ vbufs' = VecDropped(vbufs, v)
    /\ vecs' = vecs \ {v}
    /\ UNCHANGED <<parts, vstat>>
    /\ UNCHANGED <<wrapVars, safe, convVars, harnessVars>>

\* as_safe_ptr(&v) on a vector the native side owns; &self is a shared
\* borrow, the vector and its allocation stay as they are
VecAsSafePtr(v) ==
    /\ safe' = [called |-> TRUE, vec |-> v, ptr |-> as_safe_ptr(v),
                elems |-> SliceRead(vbufs, v.ptr, v.len).elems]
    /\ safe' # safe
    /\ UNCHANGED vecVars
    /\ UNCHANGED <<wrapVars, convVars, harnessVars>>

VecNext ==
    \/ \E v \in vecs : VecAsSafePtr(v)
    \/ \E v \in vecs : VecIntoRawParts(v)
    \/ \E j \in 1..Len(parts) : VecCloneFromRawParts(j)
    \/ \E j \in 1..Len(parts) : VecFromRawParts(j)
    \/ \E v \in vecs : VecDrop(v)

SpecVec == InitVec /\ [][VecNext]_vars

-----------------------------------------------------------------------------
(* Properties of buffer ownership transfer.                                *)

\* C9: for every vector v, empty or not, vec_from_raw_parts applied to the
\* pair returned by vec_into_raw_parts(v) yields a vector of the same length
\* with the same elements in the same order.
C9_RoundTrip ==
    \A j \in 1..Len(parts) :
        parts[j].rebuilt =>
            /\ parts[j].out.valid
            /\ Len(parts[j].out.elems) = Len(parts[j].orig)
            /\ parts[j].out.elems = parts[j].orig

C9_Witness ==
    \E j \in 1..Len(parts) :
        /\ parts[j].rebuilt
        /\ parts[j].orig = <<7, 8>>
        /\ parts[j].out.elems = <<7, 8>>

C9_WitnessEmpty ==
    \E j \in 1..Len(parts) :
        /\ parts[j].rebuilt
        /\ parts[j].orig = <<>>
        /\ parts[j].len = 0
        /\ parts[j].out.elems = <<>>

\* C10: as long as each pair is reconstructed at most once, the allocation
\* behind a pair that is outstanding is not released (so it leaks when
\* vec_from_raw_parts is never called), and no allocation is released more
\* than once.
C10_OwnershipTransfer ==
    /\ \A j \in 1..Len(parts) :
          (~parts[j].rebuilt /\ parts[j].len > 0) =>
              /\ parts[j].ptr.region = "buf"
              /\ vbufs[parts[j].ptr.addr].live
              /\ vbufs[parts[j].ptr.addr].frees = 0
    /\ \A a \in 1..Len(vbufs) :
          /\ vbufs[a].frees <= 1
          /\ vbufs[a].live <=> (vbufs[a].frees = 0)

C10_Witness ==
    \E j, k \in 1..Len(parts) :
        /\ parts[j].rebuilt
        /\ parts[j].len > 0
        /\ vbufs[parts[j].ptr.addr].frees = 1
        /\ ~parts[k].rebuilt
        /\ parts[k].len > 0
        /\ vbufs[parts[k].ptr.addr].live
        /\ vstat.clones = 1
        /\ vecs = {}

\* C11: vec_clone_from_raw_parts(ptr, len) yields a freshly owned vector equal
\* to the len source elements; the source buffer keeps its contents and its
\* owner (no native vector shares the allocation of an outstanding pair), so
\* after any number of clones the pair is still reconstructed once by
\* vec_from_raw_parts with the original contents.
C11_CloneLeavesSource ==
    \A j \in 1..Len(parts) :
        /\ parts[j].clones > 0 =>
               /\ parts[j].cloned.valid
               /\ parts[j].cloned.elems = parts[j].orig
        /\ ~parts[j].rebuilt =>
               /\ SliceRead(vbufs, parts[j].ptr, parts[j].len).valid
               /\ SliceRead(vbufs, parts[j].ptr, parts[j].len).elems
                      = parts[j].orig
               /\ parts[j].len > 0 =>
                      /\ vbufs[parts[j].ptr.addr].frees = 0
                      /\ \A v \in vecs : v.ptr # parts[j].ptr
        /\ (parts[j].rebuilt /\ parts[j].clones > 0) =>
               /\ parts[j].out.valid
               /\ parts[j].out.elems = parts[j].orig

C11_Witness ==
    \E j \in 1..Len(parts) :
        /\ parts[j].clones = MaxClones
        /\ parts[j].cloned.elems = <<7, 8>>
        /\ parts[j].rebuilt
        /\ parts[j].out.elems = <<7, 8>>
        /\ \E v, w \in vecs : v.ptr # w.ptr

\* C12: the pair returned by vec_into_raw_parts for an empty vector carries
\* the null pointer, never a non-null pointer backed by no allocation, and
\* vec_from_raw_parts of that pair yields the empty vector.
C12_EmptyPairIsNull ==
    \A j \in 1..Len(parts) :
        parts[j].len = 0 =>
            /\ is_null(parts[j].ptr)
            /\ parts[j].rebuilt => parts[j].out.elems = <<>>

\* C13: as_safe_ptr on a Vec returns the null pointer if and only if the
\* vector is empty, otherwise the vector's own data pointer, and the call
\* leaves the vector as it was.
C13_SafePtr ==
    /\ [](safe.called =>
             /\ is_null(safe.ptr) <=> (safe.vec.len = 0)
             /\ safe.vec.len > 0 =>
                    /\ safe.ptr = safe.vec.ptr
                    /\ safe.ptr.region = "buf")
    /\ [][\A v \in vecs : VecAsSafePtr(v) =>
               /\ v \in vecs'
               /\ vbufs' = vbufs
               /\ SliceRead(vbufs', v.ptr, v.len).elems = safe'.elems]_vars

C13_WitnessEmpty ==
    /\ safe.called
    /\ safe.vec.len = 0
    /\ safe.vec.cap = 1
    /\ is_null(safe.ptr)
    /\ safe.vec \in vecs

C13_Witness ==
    /\ safe.called
    /\ safe.vec.len = 2
    /\ safe.ptr = safe.vec.ptr
    /\ safe.vec \in vecs

-----------------------------------------------------------------------------
(* Conversions across the boundary: string.rs, repr_c.rs, and the result   *)
(* encoders of result.rs and macros.rs called on their own.                *)

\* byte values drawn for C strings handed in by the foreign side: the letter
\* a and 255, which no UTF-8 text contains
CBytes == {97, 255}

RECURSIVE CTextsOfLen(_)
CTextsOfLen(n) ==
    IF n = 0 THEN {<<>>}
    ELSE {Append(t, b) : t \in CTextsOfLen(n - 1), b \in CBytes}

\* the memory of the C strings the foreign side passes: text up to MaxLen and
\* the terminator
CStrings == {Append(t, 0) : t \in UNION {CTextsOfLen(n) : n \in 0..MaxLen}}

\* what a *const c_char argument can be: null, or the address of a C string
CStrArgs ==
    {[ptr |-> NullPtr, mem |-> <<>>]}
        \cup {[ptr |-> ObjPtr, mem |-> m] : m \in CStrings}

\* str::from_utf8 on the bytes drawn here: 255 is never part of UTF-8 text
IsUtf8(t) == \A i \in 1..Len(t) : t[i] < 128

\* Result<String, StringError>
StrOk(t) == [ok |-> TRUE, val |-> t, err |-> "none"]

StrErr(e) == [ok |-> FALSE, val |-> <<>>, err |-> e]

\* string.rs from_c_str
from_c_str(a) ==
    IF is_null(a.ptr) THEN StrErr("Null")
    ELSE IF IsUtf8(CStrText(a.mem)) THEN StrOk(CStrText(a.mem))
         ELSE StrErr("Utf8")

\* string.rs impl ReprC for String, clone_from_repr_c
String_clone_from_repr_c(a) ==
    IF is_null(a.ptr) THEN StrOk(<<>>) ELSE from_c_str(a)

\* the primitive types with an `impl ReprC` whose C type is the type itself,
\* and the number of bytes of a value
SizeOf(t) ==
    CASE t \in {"i32", "u32"} -> 4
      [] t \in {"i64", "u64", "usize", "const_ptr", "mut_ptr"} -> 8

NumericTypes == {"i32", "i64", "u32", "u64", "usize"}

PointerTypes == {"const_ptr", "mut_ptr"}

\* the fixed-size byte arrays with an `impl ReprC`
ArrayLens == {24, 32, 48, 64, 96}

\* values of a numeric type, as the bytes of the value, least significant
\* first: 0, 1, 42, all bits set (-1 or MAX), the sign bit alone (MIN of a
\* signed type), all but the sign bit (MAX of a signed type)
NumericValues(t) ==
    LET n == SizeOf(t)
    IN  {[i \in 1..n |-> 0],
         [i \in 1..n |-> IF i = 1 THEN 1 ELSE 0],
         [i \in 1..n |-> IF i = 1 THEN 42 ELSE 0],
         [i \in 1..n |-> 255],
         [i \in 1..n |-> IF i = n THEN 128 ELSE 0],
         [i \in 1..n |-> IF i = n THEN 127 ELSE 255]}

PointerValues == {NullPtr, ObjPtr, HeapPtr(1), DanglingPtr}

\* values of [u8; n]
ArrayValues(n) ==
    {[i \in 1..n |-> 0],
     [i \in 1..n |-> 255],
     [i \in 1..n |-> i],
     [i \in 1..n |-> n - i],
     [i \in 1..n |-> IF i = 1 THEN 1 ELSE 0],
     [i \in 1..n |-> IF i = n THEN 1 ELSE 0]}

\* the boundary representation of a value: a primitive is passed as itself
\* (type C = Self), an array as the address of its bytes (type C = *const
\* [u8; n])
ReprOf(kind, x) ==
    IF kind = "array" THEN [c |-> ObjPtr, mem |-> x]
    ELSE [c |-> x, mem |-> <<>>]

\* Result<T, ()>
ReprOk(v) == [ok |-> TRUE, val |-> v]

\* variant: only the low four bytes of a value arrive, the rest is zero
clone_from_repr_c_narrow(kind, r) ==
    IF kind = "numeric"
    THEN ReprOk([i \in 1..Len(r.c) |-> IF i <= 4 THEN r.c[i] ELSE 0])
    ELSE IF kind = "array" THEN ReprOk(r.mem) ELSE ReprOk(r.c)

\* repr_c.rs clone_from_repr_c: Ok(repr_c) for numbers and raw pointers,
\* Ok(*repr_c) for byte arrays
clone_from_repr_c(kind, r) ==
    IF kind = "array" THEN ReprOk(r.mem) ELSE ReprOk(r.c)

\* from_c_str(ptr) is called
ConvFromCStr ==
    /\ \E a \in CStrArgs :
          conv' = [fn |-> "from_c_str", in |-> a, out |-> from_c_str(a)]
    /\ UNCHANGED <<wrapVars, vecVars, safe, harnessVars>>

\* String::clone_from_repr_c(ptr) is called
ConvStringCloneFromReprC ==
    /\ \E a \in CStrArgs :
          conv' = [fn |-> "String::clone_from_repr_c", in |-> a,
                   out |-> String_clone_from_repr_c(a)]
    /\ UNCHANGED <<wrapVars, vecVars, safe, harnessVars>>

\* T::clone_from_repr_c is called with the representation of a value x of a
\* numeric type, a raw pointer type or a byte array type
ConvCloneFromReprC ==
    /\ \E in \in
            {[kind |-> "numeric", type |-> t, x |-> x] :
                 x \in UNION {NumericValues(u) : u \in NumericTypes},
                 t \in NumericTypes}
            \cup {[kind |-> "pointer", type |-> t, x |-> x] :
                      t \in PointerTypes, x \in PointerValues}
            \cup {[kind |-> "array", type |-> "u8xN", x |-> x] :
                      x \in UNION {ArrayValues(n) : n \in ArrayLens}} :
          /\ in.kind = "numeric" => Len(in.x) = SizeOf(in.type)
          /\ conv' = [fn |-> "clone_from_repr_c", in |-> in,
                      out |-> clone_from_repr_c(in.kind,
                                                ReprOf(in.kind, in.x))]
    /\ UNCHANGED <<wrapVars, vecVars, safe, harnessVars>>

\* ffi_result(res) or ffi_result!(res) is evaluated; the pair's second
\* component is a String, a text that is there whatever it holds
ConvFfiResult ==
    /\ \E r \in Results, variant \in {"fn", "macro"} :
          LET e == IF variant = "fn" THEN ffi_result(r) ELSE ffi_result_macro(r)
          IN  conv' = [fn |-> "ffi_result", variant |-> variant, in |-> r,
                       out |-> [error_code |-> e.error_code,
                                description |-> Some(e.description)]]
    /\ UNCHANGED <<wrapVars, vecVars, safe, harnessVars>>

\* ffi_error(err) or ffi_error!(err) is evaluated
ConvFfiError ==
    /\ \E err \in TestErrors \cup ImplErrors, variant \in {"fn", "macro"} :
          LET e == IF variant = "fn" THEN ffi_error(err)
                   ELSE ffi_error_macro(err)
          IN  conv' = [fn |-> "ffi_error", variant |-> variant, in |-> err,
                       out |-> [error_code |-> e.error_code,
                                description |-> Some(e.description)]]
    /\ UNCHANGED <<wrapVars, vecVars, safe, harnessVars>>

\* ffi_error_code(&err) or ffi_error_code!(err) is evaluated
ConvFfiErrorCode ==
    /\ \E err \in TestErrors \cup ImplErrors, variant \in {"fn", "macro"} :
          conv' = [fn |-> "ffi_error_code", variant |-> variant, in |-> err,
                   out |-> [error_code |->
                               IF variant = "fn" THEN ffi_error_code(err)
                               ELSE ffi_error_code_macro(err)]]
    /\ UNCHANGED <<wrapVars, vecVars, safe, harnessVars>>

\* the ways a closure f handed to catch_unwind_result ends: it panics, or it
\* returns a Result<T, E>, here with T = () and T = i32
Runs ==
    {[panicked |-> TRUE, result |-> ResultOk]}
        \cup {[panicked |-> FALSE, result |-> r] : r \in Results}
        \cup {[panicked |-> FALSE,
               result |-> [ok |-> TRUE, err |-> NoError, val |-> v]] :
                   v \in {0, 42}}

\* catch_unwind_result(f) is called on its own and returns to its caller
ConvCatchUnwindResult ==
    /\ \E run \in Runs :
          conv' = [fn |-> "catch_unwind_result", in |-> run,
                   out |-> catch_unwind_result(run)]
    /\ UNCHANGED <<wrapVars, vecVars, safe, harnessVars>>

\* variant: the description is taken over with CString::from_raw, and
\* released when the CString is dropped
NativeResult_clone_from_repr_c_owning(r, h) ==
    IF is_null(r.description)
    THEN [ok |-> TRUE, val |-> NativeResult(r.error_code, None), heap |-> h]
    ELSE [ok |-> TRUE,
          val |-> NativeResult(r.error_code,
                               Some(CStrText(h[r.description.addr].bytes))),
          heap |-> Release([heap |-> h, staticFrees |-> 0],
                           r.description).heap]

\* impl ReprC for NativeResult, clone_from_repr_c: the fields of *repr_c are
\* copied, a null description becomes None, any other goes through
\* from_c_str; the FfiResult behind the pointer is left as it is
NativeResult_clone_from_repr_c(r, h) ==
    IF is_null(r.description)
    THEN [ok |-> TRUE, val |-> NativeResult(r.error_code, None), heap |-> h]
    ELSE LET t == from_c_str([ptr |-> r.description,
                              mem |-> h[r.description.addr].bytes])
         IN  [ok |-> t.ok,
              val |-> NativeResult(r.error_code, Some(t.val)),
              heap |-> h]

\* a NativeResult is converted with into_repr_c and, when that gave an
\* FfiResult, read back through a pointer to it with clone_from_repr_c
ConvNativeResult ==
    /\ \E nr \in NativeResults :
          LET c == into_repr_c(nr, <<>>)
          IN  conv' = [fn |-> "NativeResult::clone_from_repr_c", in |-> nr,
                       ffi |-> c,
                       out |-> IF c.ok
                               THEN NativeResult_clone_from_repr_c(c.res, c.heap)
                               ELSE [ok |-> FALSE, val |-> nr, heap |-> c.heap]]
    /\ UNCHANGED <<wrapVars, vecVars, safe, harnessVars>>

ConvNext ==
    \/ ConvNativeResult
    \/ ConvFfiErrorCode
    \/ ConvCatchUnwindResult
    \/ ConvFromCStr
    \/ ConvStringCloneFromReprC
    \/ ConvCloneFromReprC
    \/ ConvFfiResult
    \/ ConvFfiError

SpecConv == Init /\ [][ConvNext]_vars

-----------------------------------------------------------------------------
(* Properties of the conversions.                                          *)

\* C14: String::clone_from_repr_c and from_c_str, given the null pointer,
\* return the null-pointer error and never an empty string.
C14_NullIsAnError ==
    (conv.fn \in {"String::clone_from_repr_c", "from_c_str"}
         /\ is_null(conv.in.ptr)) =>
        /\ ~conv.out.ok
        /\ conv.out.err = "Null"

\* C15: for every value x of i32, i64, u32, u64, usize, *const T, *mut T and
\* [u8; 24], [u8; 32], [u8; 48], [u8; 64], [u8; 96], clone_from_repr_c of
\* the boundary representation of x is Ok(x); it is never Err.
C15_PrimitiveRoundTrip ==
    conv.fn = "clone_from_repr_c" =>
        /\ conv.out.ok
        /\ conv.out.val = conv.in.x

C15_Witness ==
    /\ conv.fn = "clone_from_repr_c"
    /\ conv.in.type = "i64"
    /\ conv.in.x = <<255, 255, 255, 255, 255, 255, 255, 127>>
    /\ conv.out = ReprOk(conv.in.x)

C15_WitnessArray ==
    /\ conv.fn = "clone_from_repr_c"
    /\ conv.in.kind = "array"
    /\ Len(conv.in.x) = 96
    /\ conv.in.x[96] = 1
    /\ conv.out = ReprOk(conv.in.x)

\* C20: ffi_result and ffi_result! yield code 0 and no description for every
\* Ok value, and (e.error_code(), Display text of e) for every Err(e).
C20_ResultEncoding ==
    conv.fn = "ffi_result" =>
        IF conv.in.ok
        THEN /\ conv.out.error_code = 0
             /\ conv.out.description = None
        ELSE /\ conv.out.error_code = error_code(conv.in.err)
             /\ conv.out.description = Some(Display(conv.in.err))

-----------------------------------------------------------------------------
(* The test harness: test_utils.rs call_0, call_1, call_2, call_vec and    *)
(* call_vec_u8, their callbacks and the mpsc channel between them.         *)

\* Result<T, i32> as the harness passes it around
HOk(v) == [tag |-> "ok", val |-> v, code |-> 0]

HErr(c) == [tag |-> "err", val |-> <<>>, code |-> c]

\* a Vec the callback built by copying: it owns its elements
OwnedVec(elems) == [owned |-> TRUE, elems |-> elems]

\* the harness functions explored, with the type T of call_1 and call_2
HarnessKinds ==
    {[fn |-> "call_0", T |-> "none"],
     [fn |-> "call_1", T |-> "i32"],
     [fn |-> "call_1", T |-> "String"],
     [fn |-> "call_2", T |-> "i32,String"],
     [fn |-> "call_vec", T |-> "u8xN"],
     [fn |-> "call_vec_u8", T |-> "u8"]}

IsVecKind(k) == k.fn \in {"call_vec", "call_vec_u8"}

HasString(k) == k.T \in {"String", "i32,String"}

\* the extra parameters of the extern "C" callback each harness function
\* passes to the operation
HarnessSig(k) ==
    CASE k.fn = "call_0" -> <<>>
      [] k.fn = "call_1" /\ k.T = "i32" -> <<Scalar("i32")>>
      [] k.fn = "call_1" /\ k.T = "String" -> <<Scalar("const_ptr")>>
      [] k.fn = "call_2" -> <<Scalar("i32"), Scalar("const_ptr")>>
      [] OTHER -> <<Scalar("const_ptr"), Scalar("usize")>>

\* what an operation under test does at one firing: report success with real
\* values, panic inside catch_unwind_cb, or fail with TestError::Test inside
\* catch_unwind_cb
Whats == {"success", "panic", "err"}

RECURSIVE PlansOfLen(_)
PlansOfLen(n) ==
    IF n = 0 THEN {<<>>}
    ELSE {Append(q, w) : q \in PlansOfLen(n - 1), w \in Whats}

\* the firings an operation makes, in order; none at all is one of them
Plans == UNION {PlansOfLen(n) : n \in 0..MaxOpFires}

\* address of the operation's array
OmemPtr == [region |-> "omem", addr |-> 1]

\* the FfiResult the harness callback is handed at a firing
FireResult(w) ==
    CASE w = "success" -> FFI_RESULT_OK
      [] w = "panic" ->
           catch_unwind_cb_res(
               catch_unwind_result([panicked |-> TRUE, result |-> ResultOk]),
               <<>>).res
      [] OTHER ->
           catch_unwind_cb_res(
               catch_unwind_result(
                   [panicked |-> FALSE,
                    result |-> ResultErr([variant |-> "Test", s |-> <<>>])]),
               <<>>).res

\* the extra arguments of firing number k: on success the operation's values
\* (tests/lib.rs reports a number, 42 at the first firing), otherwise
\* CallbackArgs::default() as catch_unwind_cb passes it
FireArgs(o, k, w) ==
    IF w = "success"
    THEN CASE o.kind.fn = "call_0" -> <<>>
           [] o.kind.fn = "call_1" /\ o.kind.T = "i32" -> <<41 + k>>
           [] o.kind.fn = "call_1" /\ o.kind.T = "String" -> <<o.sarg>>
           [] o.kind.fn = "call_2" -> <<41 + k, o.sarg>>
           [] OTHER -> <<o.ptr, Len(o.data)>>
    ELSE CallbackCall(HarnessSig(o.kind),
                      CallbackArgsDefault(ArgsType(HarnessSig(o.kind))))

\* mpsc::channel(): an empty queue and the one Sender, the local `tx`
mpsc_channel == [msgs |-> <<>>, senders |-> 1]

\* variant: the value is dropped instead of sent
send_via_user_data_lost(ch, value) == ch

\* send_via_user_data: (*tx).send(value) through the user data's common
\* pointer; the channel is unbounded, send never blocks
send_via_user_data(ch, value) == [ch EXCEPT !.msgs = Append(@, value)]

\* variant: try_recv, which gives up on an empty queue
rx_recv_try(ch) ==
    IF ch.msgs # <<>> THEN [status |-> "msg", msg |-> Head(ch.msgs)]
    ELSE [status |-> "disconnected", msg |-> HErr(0)]

\* variant: the newest message is taken
rx_recv_last(ch) ==
    IF ch.msgs # <<>> THEN [status |-> "msg", msg |-> ch.msgs[Len(ch.msgs)]]
    ELSE IF ch.senders > 0 THEN [status |-> "blocked", msg |-> HErr(0)]
         ELSE [status |-> "disconnected", msg |-> HErr(0)]

\* rx.recv(): the oldest message; with an empty queue it blocks while a
\* Sender is alive and fails once none is
rx_recv(ch) ==
    IF ch.msgs # <<>> THEN [status |-> "msg", msg |-> Head(ch.msgs)]
    ELSE IF ch.senders > 0 THEN [status |-> "blocked", msg |-> HErr(0)]
         ELSE [status |-> "disconnected", msg |-> HErr(0)]

\* T::clone_from_repr_c(arg) for the types T explored; a String argument is
\* the pointer together with the C string behind it
Reconstruct(T, arg) ==
    IF T = "String" THEN String_clone_from_repr_c(arg)
    ELSE clone_from_repr_c("numeric", [c |-> arg, mem |-> <<>>])

\* outcome of a callback body: the value it hands to send_via_user_data,
\* unless unwrap! panicked first; `read` says the extra arguments were used
CbSends(m, read) == [panicked |-> FALSE, msg |-> m, read |-> read]

CbPanics == [panicked |-> TRUE, msg |-> HErr(0), read |-> TRUE]

\* callback_0 sends the bare error code
callback_0(r) == CbSends(r.error_code, FALSE)

\* variant: the argument is reconstructed and sent as Ok whatever the code
callback_1_always_ok(T, r, arg) == CbSends(HOk(arg), TRUE)

\* callback_1
callback_1(T, r, arg) ==
    IF r.error_code = 0
    THEN LET c == Reconstruct(T, arg)
         IN  IF c.ok THEN CbSends(HOk(c.val), TRUE) ELSE CbPanics
    ELSE CbSends(HErr(r.error_code), FALSE)

\* variant: the arguments are reconstructed before the code is looked at
callback_2_eager(r, arg0, arg1) ==
    LET c0 == Reconstruct("i32", arg0)
    IN  IF r.error_code = 0
        THEN CbSends(HOk(<<c0.val, Reconstruct("String", arg1).val>>), TRUE)
        ELSE CbSends(HErr(r.error_code), TRUE)

\* callback_2 with T0 = i32, T1 = String
callback_2(r, arg0, arg1) ==
    IF r.error_code = 0
    THEN LET c0 == Reconstruct("i32", arg0)
             c1 == Reconstruct("String", arg1)
         IN  IF c0.ok /\ c1.ok THEN CbSends(HOk(<<c0.val, c1.val>>), TRUE)
             ELSE CbPanics
    ELSE CbSends(HErr(r.error_code), FALSE)

\* slice::from_raw_parts(ptr, len) over the operation's array.  A null ptr
\* breaks the function's contract even for len = 0: the build either yields
\* the empty slice or stops at the precondition check (`ub` picks which).
FfiSlice(mem, ptr, len, ub) ==
    IF is_null(ptr)
    THEN [ok |-> ub = "benign", elems |-> <<>>]
    ELSE [ok |-> TRUE,
          elems |-> IF len = 0 THEN <<>> ELSE SubSeq(mem.elems, 1, len)]

\* callback_vec: every element of the slice goes through clone_from_repr_c
\* and is pushed onto a new Vec
callback_vec(r, array, size, mem, ub) ==
    IF r.error_code = 0
    THEN LET sl == FfiSlice(mem, array, size, ub)
         IN  IF sl.ok
             THEN CbSends(
                      HOk(OwnedVec(
                          [i \in 1..Len(sl.elems) |->
                              clone_from_repr_c(
                                  "array",
                                  [c |-> OmemPtr, mem |-> sl.elems[i]]).val])),
                      TRUE)
             ELSE CbPanics
    ELSE CbSends(HErr(r.error_code), FALSE)

\* variant: the message refers to the operation's array instead of a copy
callback_vec_u8_borrow(r, ptr, len, mem, ub) ==
    IF r.error_code = 0
    THEN CbSends(HOk([owned |-> FALSE, elems |-> <<>>, len |-> len]), TRUE)
    ELSE CbSends(HErr(r.error_code), FALSE)

\* callback_vec_u8: slice::from_raw_parts(ptr, len).to_vec()
callback_vec_u8(r, ptr, len, mem, ub) ==
    IF r.error_code = 0
    THEN LET sl == FfiSlice(mem, ptr, len, ub)
         IN  IF sl.ok THEN CbSends(HOk(OwnedVec(sl.elems)), TRUE)
             ELSE CbPanics
    ELSE CbSends(HErr(r.error_code), FALSE)

\* the harness callback of each call_N, applied to the arguments of a firing
HarnessCallback(k, r, args, mem, ub) ==
    CASE k.fn = "call_0" -> callback_0(r)
      [] k.fn = "call_1" -> callback_1(k.T, r, args[1])
      [] k.fn = "call_2" -> callback_2(r, args[1], args[2])
      [] k.fn = "call_vec" -> callback_vec(r, args[1], args[2], mem, ub)
      [] OTHER -> callback_vec_u8(r, args[1], args[2], mem, ub)

\* what call_N makes of the received message: call_0 turns the bare code
\* into Ok(()) or Err(code), the others return the message itself
HarnessResult(k, m) ==
    IF k.fn = "call_0" THEN (IF m = 0 THEN HOk(<<>>) ELSE HErr(m)) ELSE m

\* the elements a returned vector holds when it is looked at
ValueOf(v, mem) ==
    IF v.owned THEN v.elems
    ELSE IF v.len = 0 THEN <<>> ELSE SubSeq(mem.elems, 1, v.len)

\* call_N(f): the channel is created and f is called with the harness
\* callback.  The operation f is any of those explored: it fires on the
\* calling thread before it returns ("sync") or from a thread of its own
\* ("async"), following its plan.
HarnessCall ==
    /\ hpc = "idle"
    /\ oper = NoOper
    /\ \E k \in HarnessKinds, mode \in {"sync", "async"}, plan \in Plans,
          sarg \in CStrArgs, data \in ElemSeqs, ptr \in {NullPtr, DanglingPtr} :
          /\ ~HasString(k) => sarg = [ptr |-> NullPtr, mem |-> <<>>]
          /\ ~IsVecKind(k) => (data = <<>> /\ ptr = NullPtr)
          /\ (IsVecKind(k) /\ data # <<>>) => ptr = NullPtr
          /\ oper' = [kind |-> k, mode |-> mode, plan |-> plan, sarg |-> sarg,
                      data |-> data,
                      ptr |-> IF data # <<>> THEN OmemPtr ELSE ptr,
                      fired |-> 0, returned |-> FALSE, memGone |-> FALSE,
                      late |-> FALSE, log |-> <<>>]
          /\ omem' = [elems |-> data, live |-> IsVecKind(k) /\ data # <<>>]
    /\ chan' = mpsc_channel
    /\ hpc' = "in_f"
    /\ UNCHANGED hret
    /\ UNCHANGED <<wrapVars, vecVars, safe, convVars>>

\* the operation fires the harness callback, which runs to its end: it looks
\* at the result, reconstructs the arguments and sends the message
OperFire ==
    /\ oper # NoOper
    /\ hpc \in {"in_f", "recv"}
    /\ oper.fired < Len(oper.plan)
    /\ oper.mode = "sync" => hpc = "in_f"
    /\ ~oper.memGone
    /\ \E ub \in {"benign", "abort"} :
          LET k == oper.fired + 1
              w == oper.plan[k]
              r == FireResult(w)
              args == FireArgs(oper, k, w)
              c == HarnessCallback(oper.kind, r, args, omem, ub)
          IN  /\ oper' = [oper EXCEPT
                     !.fired = k,
                     !.log = Append(@, [code |-> r.error_code, args |-> args,
                                        read |-> c.read,
                                        sent |-> ~c.panicked, msg |-> c.msg,
                                        fReturned |-> oper.returned])]
              /\ IF c.panicked
                 THEN /\ hpc' = "aborted"
                      /\ UNCHANGED chan
                 ELSE /\ chan' = send_via_user_data(chan, c.msg)
                      /\ UNCHANGED hpc
    /\ UNCHANGED <<omem, hret>>
    /\ UNCHANGED <<wrapVars, vecVars, safe, convVars>>

\* a firing that comes after call_N returned: `tx` went out of scope with
\* the call, the callback sends through a dangling pointer.  The process
\* stops or goes on; what call_N returned is not touched.
OperFireLate ==
    /\ oper # NoOper
    /\ hpc = "returned"
    /\ oper.mode = "async"
    /\ oper.fired < Len(oper.plan)
    /\ ~oper.memGone
    /\ oper' = [oper EXCEPT !.fired = @ + 1, !.late = TRUE]
    /\ hpc' \in {"returned", "aborted"}
    /\ UNCHANGED <<chan, omem, hret>>
    /\ UNCHANGED <<wrapVars, vecVars, safe, convVars>>

\* f returns to call_N, which goes on to rx.recv(); an operation that fires
\* on the calling thread has done all its firings by then
OperReturn ==
    /\ hpc = "in_f"
    /\ oper.mode = "sync" => oper.fired = Len(oper.plan)
    /\ oper' = [oper EXCEPT !.returned = TRUE]
    /\ hpc' = "recv"
    /\ UNCHANGED <<chan, omem, hret>>
    /\ UNCHANGED <<wrapVars, vecVars, safe, convVars>>

\* after a callback returned, the operation releases its array or uses it
\* for something else
OperReleaseOrReuse ==
    /\ oper # NoOper
    /\ IsVecKind(oper.kind)
    /\ omem.live
    /\ oper.fired >= 1
    /\ hpc # "aborted"
    /\ \E stillLive \in BOOLEAN :
          omem' = [elems |-> [i \in 1..Len(omem.elems) |-> 9],
                   live |-> stillLive]
    /\ oper' = [oper EXCEPT !.memGone = TRUE]
    /\ UNCHANGED <<hpc, chan, hret>>
    /\ UNCHANGED <<wrapVars, vecVars, safe, convVars>>

\* unwrap!(rx.recv()): call_N returns the oldest message; its locals tx and
\* rx go out of scope, whatever else was sent is dropped with them
HarnessRecv ==
    /\ hpc = "recv"
    /\ LET got == rx_recv(chan)
       IN  /\ got.status # "blocked"
           /\ IF got.status = "msg"
              THEN /\ hret' = HarnessResult(oper.kind, got.msg)
                   /\ hpc' = "returned"
              ELSE /\ hpc' = "panicked"
                   /\ UNCHANGED hret
    /\ chan' = [msgs |-> <<>>, senders |-> 0]
    /\ UNCHANGED <<oper, omem>>
    /\ UNCHANGED <<wrapVars, vecVars, safe, convVars>>

HarnessNext ==
    \/ HarnessCall
    \/ OperFire
    \/ OperFireLate
    \/ OperReturn
    \/ OperReleaseOrReuse
    \/ HarnessRecv

SpecHarness == Init /\ [][HarnessNext]_vars

\* the operation returns to its caller, and a thread blocked in recv runs
\* once a message is there
SpecHarnessLive ==
    SpecHarness /\ WF_vars(OperReturn) /\ WF_vars(HarnessRecv)

-----------------------------------------------------------------------------
(* Properties of the test harness.                                         *)

\* the value the operation reported at its k-th firing, as a native value
ReportedValue(o, k) ==
    CASE o.kind.fn = "call_0" -> <<>>
      [] o.kind.fn = "call_1" /\ o.kind.T = "i32" -> 41 + k
      [] o.kind.fn = "call_1" /\ o.kind.T = "String" -> CStrText(o.sarg.mem)
      [] o.kind.fn = "call_2" -> <<41 + k, CStrText(o.sarg.mem)>>
      [] OTHER -> OwnedVec(o.data)

\* C16: call_0, call_1, call_2, call_vec and call_vec_u8 return Ok(the value
\* reconstructed from the callback's extra arguments) exactly when the
\* harness callback fired with error_code 0, and Err(code) exactly when it
\* fired with error_code = code # 0; a success firing with 42 gives Ok(42),
\* a panic under catch_unwind_cb with TestError gives Err(-2).
C16_HarnessResult ==
    hpc = "returned" =>
        /\ Len(oper.log) >= 1
        /\ LET f == oper.log[1]
           IN  /\ (hret.tag = "ok") <=> (f.code = 0)
               /\ (hret.tag = "err") <=> (f.code # 0)
               /\ f.code = 0 => hret = HOk(ReportedValue(oper, 1))
               /\ f.code # 0 => hret = HErr(f.code)
               /\ (oper.plan[1] = "success" /\ oper.kind.T = "i32") =>
                      hret = HOk(42)
               /\ oper.plan[1] = "panic" => hret = HErr(-2)

C16_Witness ==
    /\ hpc = "returned"
    /\ oper.kind = [fn |-> "call_1", T |-> "i32"]
    /\ oper.plan = <<"success">>
    /\ hret = HOk(42)

C16_WitnessPanic ==
    /\ hpc = "returned"
    /\ oper.kind = [fn |-> "call_1", T |-> "i32"]
    /\ oper.plan = <<"panic">>
    /\ hret = HErr(-2)

\* C17: a harness call never returns before its callback has fired and
\* deposited a message, also when the operation returns first and fires
\* later from another thread; and when the callback fires once, the harness
\* call eventually returns that message.
C17_ReturnsAfterFiring ==
    /\ [](hpc \in {"returned", "panicked"} =>
             /\ Len(oper.log) >= 1
             /\ oper.log[1].sent
             /\ hret = HarnessResult(oper.kind, oper.log[1].msg))
    /\ ((oper # NoOper /\ Len(oper.plan) = 1 /\ Len(oper.log) = 1
            /\ oper.log[1].sent)
          ~> (hpc = "returned"
                 /\ hret = HarnessResult(oper.kind, oper.log[1].msg)))

C17_Witness ==
    /\ hpc = "returned"
    /\ oper.mode = "async"
    /\ Len(oper.plan) = 1
    /\ oper.log[1].fReturned
    /\ oper.log[1].sent
    /\ hret = HarnessResult(oper.kind, oper.log[1].msg)

\* C18: when the operation returns without the callback ever being fired,
\* the harness call does not return: it stays in rx.recv() with its own
\* Sender alive, without a timeout and without an error result.
C18_BlocksWithoutFiring ==
    (oper # NoOper /\ oper.returned /\ oper.fired = 0) =>
        /\ hpc = "recv"
        /\ hret = NoRet
        /\ chan.senders = 1
        /\ chan.msgs = <<>>

C18_Witness ==
    /\ oper # NoOper
    /\ oper.plan = <<>>
    /\ oper.returned
    /\ hpc = "recv"
    /\ hret = NoRet

\* C19: in call_vec and call_vec_u8 the elements are copied inside the
\* callback, before the message is deposited: every message and the value
\* the harness returns own their elements, and releasing or reusing the
\* operation's array afterwards does not change the returned vector.
C19_CopyInsideCallback ==
    (oper # NoOper /\ IsVecKind(oper.kind)) =>
        /\ \A i \in 1..Len(chan.msgs) :
              chan.msgs[i].tag = "ok" =>
                  /\ chan.msgs[i].val.owned
                  /\ chan.msgs[i].val.elems = oper.data
        /\ hret.tag = "ok" =>
              /\ hret.val.owned
              /\ ValueOf(hret.val, omem) = oper.data

C19_Witness ==
    /\ oper # NoOper
    /\ oper.kind.fn = "call_vec_u8"
    /\ hpc = "returned"
    /\ oper.data = <<7, 8>>
    /\ oper.memGone
    /\ ~omem.live
    /\ omem.elems = <<9, 9>>
    /\ hret.tag = "ok"
    /\ ValueOf(hret.val, omem) = <<7, 8>>

C19_WitnessVec ==
    /\ oper # NoOper
    /\ oper.kind.fn = "call_vec"
    /\ hpc = "returned"
    /\ oper.data = <<8, 7>>
    /\ oper.memGone
    /\ omem.elems = <<9, 9>>
    /\ hret.tag = "ok"
    /\ ValueOf(hret.val, omem) = <<8, 7>>

-----------------------------------------------------------------------------
(* Properties of error encoding and of catch_unwind_result on its own.     *)

\* C21: ffi_error, ffi_error_code and their macros produce a code different
\* from 0 for every error value of every type implementing ErrorCode.
C21_ErrorCodeNonZero ==
    conv.fn \in {"ffi_error", "ffi_error_code"} => conv.out.error_code # 0

\* C22: catch_unwind_result(f) returns f's own result unchanged when f does
\* not panic and Err(E::from("panic")) when f panics; in both cases it
\* returns a Result to its caller, the panic goes no further.
C22_CatchUnwindResult ==
    conv.fn = "catch_unwind_result" =>
        /\ conv.out.ok \in BOOLEAN
        /\ ~conv.in.panicked => conv.out = conv.in.result
        /\ conv.in.panicked =>
               /\ ~conv.out.ok
               /\ conv.out.err = [variant |-> "FromStr",
                                  s |-> <<112, 97, 110, 105, 99>>]
               /\ error_code(conv.out.err) = -2

C22_Witness ==
    /\ conv.fn = "catch_unwind_result"
    /\ conv.in.panicked
    /\ conv.out = ResultErr(FromStr(PanicText))

C22_WitnessNoPanic ==
    /\ conv.fn = "catch_unwind_result"
    /\ ~conv.in.panicked
    /\ conv.in.result.ok
    /\ conv.out = [ok |-> TRUE, err |-> NoError, val |-> 42]

-----------------------------------------------------------------------------
(* Further properties of the wrapper and of call_result_cb.                *)

\* C23: the function result::call_result_cb, given an Err whose Display
\* text holds a NUL byte, does not panic; it invokes the callback exactly
\* once with the original error code and the fallback description.
C23_FunctionFallback ==
    (site = "call_result_cb" /\ ~input.ok /\ HasNul(Display(input.err))) =>
        /\ pc # "unwound"
        /\ pc \in {"encode", "call"} => Len(calls) = mark
        /\ (pc = "drop" \/ (Ended /\ ret = "done")) =>
              /\ Len(calls) = mark + 1
              /\ IsFallbackOf(calls[mark + 1], input.err)

\* C24: the static fallback description is never handed to deallocation;
\* only allocations made by into_repr_c are released.
C24_FallbackNeverReleased ==
    /\ staticFrees = 0
    /\ pc # "aborted"

\* C26: the description handed to a callback on an error path is allocated
\* while the callback runs and is released only after the callback has
\* returned: no invocation sees a released description, the description of
\* a result about to be delivered is live, and an allocation is released
\* only by the step that ends the scope of `res`.
C26_DescriptionLiveDuringCallback ==
    /\ [](/\ \A i \in 1..Len(calls) : ~calls[i].seen.dangling
          /\ (pc = "call" /\ res.description.region = "heap") =>
                 /\ heap[res.description.addr].live
                 /\ heap[res.description.addr].frees = 0)
    /\ [][(\E a \in 1..Len(heap) : heap'[a].frees > heap[a].frees) =>
              /\ pc = "drop"
              /\ calls' = calls
              /\ Len(calls) > mark
              /\ calls[Len(calls)].description = res.description]_vars

C26_Witness ==
    /\ pc = "done"
    /\ op = CUC
    /\ Len(calls) = 1
    /\ calls[1].description.region = "heap"
    /\ calls[1].seen.some
    /\ ~calls[1].seen.dangling
    /\ calls[1].seen.s = <<112, 97, 110, 105, 99>>
    /\ heap[calls[1].description.addr].frees = 1

\* C25: for every NativeResult r whose description holds no NUL byte,
\* clone_from_repr_c of a pointer to r.into_repr_c() gives a NativeResult
\* with the same error_code and the same description (None through the null
\* pointer, Some(text) as Some(text)), and the description of the FfiResult
\* is not released by the clone.
C25_NativeResultRoundTrip ==
    (conv.fn = "NativeResult::clone_from_repr_c"
         /\ (conv.in.description.some => ~HasNul(conv.in.description.s))) =>
        /\ conv.ffi.ok
        /\ conv.ffi.res.error_code = conv.in.error_code
        /\ is_null(conv.ffi.res.description) <=> ~conv.in.description.some
        /\ conv.out.ok
        /\ conv.out.val.error_code = conv.in.error_code
        /\ conv.out.val.description = conv.in.description
        /\ conv.out.heap = conv.ffi.heap
        /\ \A a \in 1..Len(conv.out.heap) :
              conv.out.heap[a].live /\ conv.out.heap[a].frees = 0

C25_Witness ==
    /\ conv.fn = "NativeResult::clone_from_repr_c"
    /\ conv.in = NativeResult(-1, Some(<<97, 97>>))
    /\ conv.out.val = conv.in
    /\ Len(conv.out.heap) = 1
    /\ conv.out.heap[1].live

C25_WitnessNone ==
    /\ conv.fn = "NativeResult::clone_from_repr_c"
    /\ conv.in = NativeResult(0, None)
    /\ is_null(conv.ffi.res.description)
    /\ conv.out.val = conv.in

-----------------------------------------------------------------------------
(* Further properties of the test harness.                                 *)

\* the extra arguments catch_unwind_cb passes on its error path, per harness
\* function
ErrorPathArgs(k) ==
    CASE k.fn = "call_0" -> <<>>
      [] k.fn = "call_1" /\ k.T = "i32" -> <<0>>
      [] k.fn = "call_1" /\ k.T = "String" -> <<NullPtr>>
      [] k.fn = "call_2" -> <<0, NullPtr>>
      [] OTHER -> <<NullPtr, 0>>

\* C27: a harness callback fired with a nonzero error_code does not read,
\* dereference or reconstruct its extra arguments, which are the null and
\* zero defaults; it deposits Err(error_code) and nothing else.
C27_ErrorPathIgnoresArgs ==
    (oper # NoOper /\ oper.kind.fn # "call_0") =>
        \A i \in 1..Len(oper.log) :
            oper.log[i].code # 0 =>
                /\ oper.log[i].args = ErrorPathArgs(oper.kind)
                /\ ~oper.log[i].read
                /\ oper.log[i].sent
                /\ oper.log[i].msg = HErr(oper.log[i].code)

C27_Witness ==
    /\ oper # NoOper
    /\ oper.kind.fn = "call_2"
    /\ hpc = "returned"
    /\ oper.plan = <<"panic">>
    /\ oper.log[1].code = -2
    /\ oper.log[1].args = <<0, NullPtr>>
    /\ ~oper.log[1].read
    /\ hret = HErr(-2)

C27_WitnessVec ==
    /\ oper # NoOper
    /\ oper.kind.fn = "call_vec"
    /\ hpc = "returned"
    /\ oper.plan[1] = "err"
    /\ oper.log[1].args = <<NullPtr, 0>>
    /\ ~oper.log[1].read
    /\ hret = HErr(-1)

\* C28: a harness call consumes exactly one message of its channel: when the
\* operation fires more than once before the call returns, the call returns
\* the message of the first firing; later messages are never returned and do
\* not change the result, and the channel serves this one call only.
C28_FirstMessageOnly ==
    /\ [](hret # NoRet =>
             /\ Len(oper.log) >= 1
             /\ hret = HarnessResult(oper.kind, oper.log[1].msg)
             /\ chan = [msgs |-> <<>>, senders |-> 0])
    /\ [][/\ hret # NoRet => hret' = hret
          /\ hret' # hret =>
                 /\ hpc = "recv"
                 /\ hpc' = "returned"
                 /\ chan.msgs # <<>>
                 /\ hret' = HarnessResult(oper.kind, Head(chan.msgs))
          /\ chan # NoChan => chan'.senders <= chan.senders]_vars

C28_Witness ==
    /\ hpc = "returned"
    /\ oper.kind = [fn |-> "call_1", T |-> "i32"]
    /\ oper.mode = "sync"
    /\ oper.plan = <<"success", "success">>
    /\ Len(oper.log) = 2
    /\ oper.log[2].sent
    /\ oper.log[2].msg = HOk(43)
    /\ hret = HOk(42)

C28_WitnessMixed ==
    /\ hpc = "returned"
    /\ oper.kind = [fn |-> "call_1", T |-> "i32"]
    /\ oper.plan = <<"success", "panic">>
    /\ Len(oper.log) = 2
    /\ ~oper.log[2].fReturned
    /\ oper.log[2].msg = HErr(-2)
    /\ hret = HOk(42)

====
